---- MODULE Spec2Model ----
(***************************************************************************)
(* The UART framing protocol of the ESP32 HID proxy tools.                 *)
(*                                                                         *)
(*   tools/test_uart_protocol.py  create_packet: the encoder               *)
(*   tools/uart_monitor.py        main: the decode loop; verify_checksum,  *)
(*                                decode_packet and the report decoders    *)
(*                                                                         *)
(*   tools/test_uart_protocol.py  send_status, send_keyboard_report,       *)
(*                                send_mouse_report and main: the senders  *)
(*                                                                         *)
(* `stream` holds the bytes written to the serial line so far and `pos`    *)
(* counts the bytes the monitor has read.  The port is opened with         *)
(* timeout=1: ser.read(n) returns the next n bytes, or the fewer that      *)
(* arrive before the timeout.  A read is cut short where the line goes     *)
(* silent: at a pause of more than the timeout between two bytes (`pauses` *)
(* holds the stream offsets of the pauses still to come) and at the end of *)
(* what has been written.  The operator's Ctrl+C (KeyboardInterrupt) is    *)
(* not an input of the byte stream and is left out.                        *)
(***************************************************************************)
EXTENDS Integers, Sequences, FiniteSets, TLC

VARIABLES stream, pos, pc, header, data, events, calls, idle, scen,
          pauses, sent, spc

vars == <<stream, pos, pc, header, data, events, calls, idle, scen,
          pauses, sent, spc>>

\* ------------------------------------------------------------------------
\* Program constants
\* ------------------------------------------------------------------------
PKT_KEYBOARD_REPORT == 1
PKT_MOUSE_REPORT == 2
PKT_LED_UPDATE == 3
PKT_STATUS == 4
PKT_ACK == 5
PACKET_START == 170
\* the largest number struct.pack('<H', ...) accepts
USHORT_MAX == 65535

\* ------------------------------------------------------------------------
\* Bounds of the model
\* ------------------------------------------------------------------------
MaxPayloadLen == 2
MaxNoise == 1
MaxRaw == 5
MaxIdle == 2
LongLen == 258
MaxPausePos == 8

\* ------------------------------------------------------------------------
\* Byte arithmetic
\* ------------------------------------------------------------------------
RECURSIVE XorN(_, _, _)
\* a ^ b on the low n bits
XorN(a, b, n) ==
    IF n = 0 THEN 0
    ELSE (((a % 2) + (b % 2)) % 2) + 2 * XorN(a \div 2, b \div 2, n - 1)

Xor(a, b) == XorN(a, b, 8)

RECURSIVE BitAnd(_, _, _)
\* a & b on the low n bits
BitAnd(a, b, n) ==
    IF n = 0 THEN 0
    ELSE ((a % 2) * (b % 2)) + 2 * BitAnd(a \div 2, b \div 2, n - 1)

RECURSIVE XorRange(_, _, _)
\* s[lo] ^ ... ^ s[hi], and 0 for an empty range; ^ is associative, so the
\* range is halved to keep the evaluation shallow on long packets
XorRange(s, lo, hi) ==
    IF lo > hi THEN 0
    ELSE IF lo = hi THEN Xor(0, s[lo])
    ELSE LET mid == (lo + hi) \div 2
         IN  Xor(XorRange(s, lo, mid), XorRange(s, mid + 1, hi))

\* checksum = 0; for byte in s[:k]: checksum ^= byte
XorUpTo(s, k) == XorRange(s, 1, k)

\* struct.pack('<H', n): little-endian uint16
PackLE16(n) == <<n % 256, (n \div 256) % 256>>

\* UnpackLE16 with the format written '>H': big-endian
UnpackLE16_bigEndian(b) == 256 * b[1] + b[2]

\* struct.unpack('<H', b)[0]
UnpackLE16(b) == b[1] + 256 * b[2]

\* SignedByte with the format written 'B': unsigned
SignedByte_unsigned(v) == v

\* struct.unpack('b', bytes([v]))[0]: signed byte
SignedByte(v) == IF v < 128 THEN v ELSE v - 256

\* ------------------------------------------------------------------------
\* Encoder (test_uart_protocol.py)
\* ------------------------------------------------------------------------
\* create_packet with the length packed big-endian ('>H')
create_packet_bigEndian(pkt_type, payload) ==
    LET n == Len(payload)
        packet == <<PACKET_START, pkt_type>> \o <<(n \div 256) % 256, n % 256>> \o payload
        checksum == XorUpTo(packet, Len(packet))
    IN  Append(packet, checksum)

create_packet(pkt_type, payload) ==
    LET packet == <<PACKET_START, pkt_type>> \o PackLE16(Len(payload)) \o payload
        checksum == XorUpTo(packet, Len(packet))
    IN  Append(packet, checksum)

\* the outcome of a call: the bytes returned, or the exception raised
Returned(bytes) == [ok |-> TRUE, error |-> "", bytes |-> bytes]
Raised(error) == [ok |-> FALSE, error |-> error, bytes |-> <<>>]

\* create_packet_call with the length masked to 16 bits instead of checked
create_packet_call_masked(pkt_type, payload) ==
    IF pkt_type \notin 0..255 THEN Raised("ValueError")
    ELSE Returned(create_packet(pkt_type, payload))

\* a call of create_packet: packet.append(pkt_type) raises ValueError for a
\* type that is no byte, struct.pack('<H', len(payload)) raises struct.error
\* for a length above 65535; otherwise the packet is returned
create_packet_call(pkt_type, payload) ==
    IF pkt_type \notin 0..255 THEN Raised("ValueError")
    ELSE IF Len(payload) > USHORT_MAX THEN Raised("struct.error")
    ELSE Returned(create_packet(pkt_type, payload))

\* ------------------------------------------------------------------------
\* Decoder helpers (uart_monitor.py)
\* ------------------------------------------------------------------------
\* verify_checksum with the loop over packet_bytes[1:-1]: the start byte left out
verify_checksum_skipStart(packet_bytes) ==
    LET calc_checksum == XorRange(packet_bytes, 2, Len(packet_bytes) - 1)
        recv_checksum == packet_bytes[Len(packet_bytes)]
    IN  calc_checksum = recv_checksum

verify_checksum(packet_bytes) ==
    LET calc_checksum == XorUpTo(packet_bytes, Len(packet_bytes) - 1)
        recv_checksum == packet_bytes[Len(packet_bytes)]
    IN  calc_checksum = recv_checksum

\* the names of `table` (pairs <<mask, name>>) whose bit is set in v, in order
RECURSIVE BitNames(_, _)
BitNames(v, table) ==
    IF table = <<>> THEN <<>>
    ELSE (IF BitAnd(v, Head(table)[1], 8) # 0 THEN <<Head(table)[2]>> ELSE <<>>)
         \o BitNames(v, Tail(table))

RECURSIVE NonZero(_)
\* [k for k in keys if k != 0]
NonZero(s) ==
    IF s = <<>> THEN <<>>
    ELSE (IF Head(s) # 0 THEN <<Head(s)>> ELSE <<>>) \o NonZero(Tail(s))

\* a decode result: what the returned string reports (len: the length an
\* "Invalid ... length" string reports, 0 in the strings that report none)
Result(tag, names, keys, x, y, len) ==
    [tag |-> tag, names |-> names, keys |-> keys, x |-> x, y |-> y, len |-> len]

ModTable ==
    << <<1, "LCTRL">>, <<2, "LSHIFT">>, <<4, "LALT">>, <<8, "LGUI">>,
       <<16, "RCTRL">>, <<32, "RSHIFT">>, <<64, "RALT">>, <<128, "RGUI">> >>

BtnTable == << <<1, "LEFT">>, <<2, "RIGHT">>, <<4, "MIDDLE">> >>

\* decode_keyboard_report with the key slots taken as payload[2:7]
decode_keyboard_report_fiveKeys(payload) ==
    IF Len(payload) # 8
    THEN Result("InvalidKeyboardLength", <<>>, <<>>, 0, 0, Len(payload))
    ELSE Result("KEYBOARD", BitNames(payload[1], ModTable),
                NonZero(SubSeq(payload, 3, 7)), 0, 0, 0)

\* decode_keyboard_report with the length test written `len(payload) < 8`
decode_keyboard_report_minLen(payload) ==
    IF Len(payload) < 8
    THEN Result("InvalidKeyboardLength", <<>>, <<>>, 0, 0, Len(payload))
    ELSE Result("KEYBOARD", BitNames(payload[1], ModTable),
                NonZero(SubSeq(payload, 3, 8)), 0, 0, 0)

decode_keyboard_report(payload) ==
    IF Len(payload) # 8
    THEN Result("InvalidKeyboardLength", <<>>, <<>>, 0, 0, Len(payload))
    ELSE Result("KEYBOARD", BitNames(payload[1], ModTable),
                NonZero(SubSeq(payload, 3, 8)), 0, 0, 0)

decode_mouse_report(payload) ==
    IF Len(payload) < 3
    THEN Result("InvalidMouseLength", <<>>, <<>>, 0, 0, Len(payload))
    ELSE Result("MOUSE", BitNames(payload[1], BtnTable), <<>>,
                SignedByte(payload[2]), SignedByte(payload[3]), 0)

\* the names bound at module level of uart_monitor.py when decode_packet runs
GlobalNames ==
    {"sys", "serial", "struct", "PKT_KEYBOARD_REPORT", "PKT_MOUSE_REPORT",
     "PKT_LED_UPDATE", "PKT_STATUS", "PKT_ACK", "PACKET_START", "verify_checksum",
     "decode_keyboard_report", "decode_mouse_report", "decode_packet", "main"}

\* The third branch is `elif pkt_STATUS:`.  The name pkt_STATUS is neither a
\* parameter, a global nor a builtin, so evaluating the condition raises
\* NameError for every type other than KEYBOARD and MOUSE; the STATUS, ACK
\* and unknown-type branches are never reached.  The result tagged
\* "NameError" stands for the raised exception.
decode_packet(pkt_type, payload) ==
    IF pkt_type = PKT_KEYBOARD_REPORT THEN decode_keyboard_report(payload)
    ELSE IF pkt_type = PKT_MOUSE_REPORT THEN decode_mouse_report(payload)
    ELSE IF "pkt_STATUS" \notin GlobalNames
         THEN Result("NameError", <<>>, <<>>, 0, 0, Len(payload))
    ELSE Result("STATUS", <<>>, payload, 0, 0, Len(payload))

\* ------------------------------------------------------------------------
\* Events: the lines the decode loop prints
\* ------------------------------------------------------------------------
Event(kind, type, payload, expected, actual, result) ==
    [kind |-> kind, type |-> type, payload |-> payload,
     expected |-> expected, actual |-> actual, result |-> result]

NoResult == Result("none", <<>>, <<>>, 0, 0, 0)

HeaderReadFailure == Event("HeaderReadFailure", 0, <<>>, 0, 0, NoResult)
BodyReadFailure(expected, actual) ==
    Event("BodyReadFailure", 0, <<>>, expected, actual, NoResult)
ChecksumError == Event("ChecksumError", 0, <<>>, 0, 0, NoResult)
Decoded(type, payload) ==
    Event("Decoded", type, payload, 0, 0, decode_packet(type, payload))

\* the pauses that fall inside the next n bytes: a pause at offset k lies
\* between byte k and byte k + 1 of the stream
Cut(n) ==
    LET avail == Len(stream) - pos
        lim == IF n < avail THEN n ELSE avail
    IN  {k \in pauses : pos <= k /\ k < pos + lim}

Earliest(S) == CHOOSE k \in S : \A j \in S : k <= j

\* ser.read(n) with timeout=1: the next n bytes, or the fewer that arrive
\* before the line goes silent (a pause, or the end of what was written)
Read(n) ==
    LET avail == Len(stream) - pos
        lim == IF n < avail THEN n ELSE avail
        k == IF Cut(n) = {} THEN lim ELSE Earliest(Cut(n)) - pos
    IN  SubSeq(stream, pos + 1, pos + k)

\* the pauses still to come after ser.read(n): the read that timed out in
\* a pause has sat through it
Waited(n) == IF Cut(n) = {} THEN pauses ELSE pauses \ {Earliest(Cut(n))}

\* ------------------------------------------------------------------------
\* Scripted inputs
\* ------------------------------------------------------------------------
SeqsUpTo(S, n) == UNION {[1..k -> S] : k \in 0..n}

TypeSamples == {PKT_KEYBOARD_REPORT, PKT_MOUSE_REPORT, PKT_LED_UPDATE,
                PKT_STATUS, PKT_ACK, 9, PACKET_START}
PayloadBytes == {0, 1, PACKET_START}
NoiseBytes == {0, PACKET_START}
RawBytes == {0, 1, PACKET_START, 171}

MousePayload == <<1, 10, 251>>
KeyboardPayload == <<2, 0, 4, 0, 0, 0, 0, 0>>
LongPayload == [i \in 1..LongLen |-> IF i % 3 = 0 THEN PACKET_START ELSE (7 * i) % 256]

\* a payload that is itself a well-formed packet (mouse, empty payload)
NestedPayload == create_packet(PKT_MOUSE_REPORT, <<>>)

\* a keyboard-sized payload that starts with a well-formed packet
CarrierPayload == NestedPayload \o <<0, 0, 0>>

ShortPayloads == SeqsUpTo(PayloadBytes, MaxPayloadLen)
Payloads ==
    ShortPayloads \cup {MousePayload, KeyboardPayload, CarrierPayload, LongPayload}
PairTypes == {PKT_MOUSE_REPORT, PKT_STATUS, 9, PACKET_START}
PairPayloads == {<<>>, <<PACKET_START>>, <<PACKET_START, 2, PACKET_START>>}
FlipTypes == {PKT_KEYBOARD_REPORT, PKT_MOUSE_REPORT, PKT_STATUS, PACKET_START}
Noise == SeqsUpTo(NoiseBytes, MaxNoise)

Scenario(kind, t1, p1, t2, p2, n1, n2, idx, bit) ==
    [kind |-> kind, t1 |-> t1, p1 |-> p1, t2 |-> t2, p2 |-> p2,
     n1 |-> n1, n2 |-> n2, idx |-> idx, bit |-> bit, pauses |-> {}]

\* one packet and nothing else
SingleScenarios ==
    {Scenario("single", t, p, 0, <<>>, <<>>, <<>>, 0, 0) : t \in TypeSamples, p \in Payloads}

\* noise, a packet, noise, a second packet
PairScenarios ==
    {Scenario("pair", a[1], a[2], b[1], b[2], n[1], n[2], 0, 0) :
        a \in PairTypes \X PairPayloads, b \in PairTypes \X PairPayloads,
        n \in Noise \X Noise}
    \cup {Scenario("pair", t, p, PKT_MOUSE_REPORT, MousePayload, <<>>, <<>>, 0, 0) :
            t \in {PKT_KEYBOARD_REPORT, PKT_MOUSE_REPORT},
            p \in {MousePayload, CarrierPayload}}

\* a packet with bit `bit` of its byte `idx` flipped, alone (t2 = 0) or
\* followed by an intact mouse packet (t2 = PKT_MOUSE_REPORT); the packet
\* that carries a packet is flipped in its type and checksum bytes only
FlipScenarios ==
    UNION {{Scenario("flip", t, p, t2, MousePayload, <<>>, <<>>, i, b) :
                i \in 1..(Len(p) + 5), b \in 0..7, t2 \in {0, PKT_MOUSE_REPORT}} :
            t \in FlipTypes, p \in ShortPayloads \cup {MousePayload}}
    \cup {Scenario("flip", t, NestedPayload, t2, MousePayload, <<>>, <<>>, i, b) :
            t \in FlipTypes, i \in {2, Len(NestedPayload) + 5}, b \in 0..7,
            t2 \in {0, PKT_MOUSE_REPORT}}

\* the first idx bytes of a packet, then silence
TruncScenarios ==
    UNION {{Scenario("trunc", t, p, 0, <<>>, <<>>, <<>>, i, 0) : i \in 1..(Len(p) + 4)} :
            t \in TypeSamples,
            p \in ShortPayloads \cup {MousePayload, KeyboardPayload, NestedPayload}}

\* any bytes at all
RawScenarios ==
    {Scenario("raw", 0, <<>>, 0, <<>>, n, <<>>, 0, 0) : n \in SeqsUpTo(RawBytes, MaxRaw)}

ByteScenarios ==
    SingleScenarios \cup PairScenarios \cup FlipScenarios \cup TruncScenarios
    \cup RawScenarios

RECURSIVE Pow2(_)
Pow2(n) == IF n = 0 THEN 1 ELSE 2 * Pow2(n - 1)

FlipBit(s, i, b) == [s EXCEPT ![i] = Xor(s[i], Pow2(b))]

StreamOf(sc) ==
    CASE sc.kind = "single" -> create_packet(sc.t1, sc.p1)
      [] sc.kind = "pair" ->
            sc.n1 \o create_packet(sc.t1, sc.p1) \o sc.n2 \o create_packet(sc.t2, sc.p2)
      [] sc.kind = "flip" ->
            FlipBit(create_packet(sc.t1, sc.p1), sc.idx, sc.bit)
            \o (IF sc.t2 = 0 THEN <<>> ELSE create_packet(sc.t2, sc.p2))
      [] sc.kind = "trunc" -> SubSeq(create_packet(sc.t1, sc.p1), 1, sc.idx)
      [] OTHER -> sc.n1

\* the ways the bytes of s arrive: in one piece, or with one pause of more
\* than the read timeout after one of the first MaxPausePos bytes or before
\* the first
PausePlans(s) ==
    {{}} \cup {{k} : k \in {j \in 0..MaxPausePos : j < Len(s)}}

Paused(sc, plan) == [sc EXCEPT !.pauses = plan]

\* the scenarios that are also run with a pause
Pausable(sc) ==
    \/ sc.kind = "single"
    \/ sc.kind = "pair" /\ sc.p2 = MousePayload
    \/ sc.kind = "trunc" /\ sc.t1 = PKT_MOUSE_REPORT
    \/ sc.kind = "flip" /\ sc.t1 = PKT_MOUSE_REPORT /\ sc.p1 = MousePayload /\ sc.bit = 0
    \/ sc.kind = "raw" /\ Len(sc.n1) <= 3

Scenarios ==
    ByteScenarios
    \cup UNION {{Paused(sc, plan) : plan \in PausePlans(StreamOf(sc))} :
                sc \in {b \in ByteScenarios : Pausable(b)}}

\* ------------------------------------------------------------------------
\* The decode loop (uart_monitor.py main)
\* ------------------------------------------------------------------------
Init ==
    /\ scen \in Scenarios
    /\ stream = StreamOf(scen)
    /\ pauses = scen.pauses
    /\ sent = 0
    /\ spc = "none"
    /\ pos = 0
    /\ pc = "seeking"
    /\ header = <<>>
    /\ data = <<>>
    /\ events = <<>>
    /\ calls = <<>>
    /\ idle = 0

\* SeekByte with the marker test written `byte[0] & PACKET_START`
SeekByte_bitTest ==
    /\ pc = "seeking"
    /\ Len(Read(1)) = 1
    /\ pos' = pos + 1
    /\ pc' = IF BitAnd(stream[pos + 1], PACKET_START, 8) # 0 THEN "header" ELSE "seeking"
    /\ UNCHANGED <<stream, header, data, events, calls, idle, scen, pauses, sent, spc>>

\* byte = ser.read(1) returned a byte: leave the inner loop on PACKET_START
SeekByte ==
    /\ pc = "seeking"
    /\ Len(Read(1)) = 1
    /\ pos' = pos + 1
    /\ pc' = IF stream[pos + 1] = PACKET_START THEN "header" ELSE "seeking"
    /\ UNCHANGED <<stream, header, data, events, calls, idle, scen, pauses, sent, spc>>

\* byte = ser.read(1) timed out: `if not byte: continue`.  The timeouts at
\* the end of what was written are counted, up to MaxIdle of them.
SeekTimeout ==
    /\ pc = "seeking"
    /\ Len(Read(1)) = 0
    /\ pauses' = Waited(1)
    /\ IF pos \in pauses
       THEN idle' = idle
       ELSE /\ idle < MaxIdle
            /\ idle' = idle + 1
    /\ UNCHANGED <<stream, pos, pc, header, data, events, calls, scen, sent, spc>>

\* header = ser.read(3)
ReadHeader ==
    /\ pc = "header"
    /\ header' = Read(3)
    /\ pos' = pos + Len(header')
    /\ pauses' = Waited(3)
    /\ IF Len(header') # 3
       THEN /\ events' = Append(events, HeaderReadFailure)
            /\ pc' = "seeking"
       ELSE /\ events' = events
            /\ pc' = "body"
    /\ UNCHANGED <<stream, data, calls, idle, scen, sent, spc>>

\* ReadBody with the short-read test written `if not data:`
ReadBody_emptyOnly ==
    /\ pc = "body"
    /\ LET pkt_len == UnpackLE16(SubSeq(header, 2, 3))
       IN  /\ data' = Read(pkt_len + 1)
           /\ pos' = pos + Len(data')
           /\ pauses' = Waited(pkt_len + 1)
           /\ IF Len(data') = 0
              THEN /\ events' = Append(events, BodyReadFailure(pkt_len + 1, Len(data')))
                   /\ pc' = "seeking"
              ELSE /\ events' = events
                   /\ pc' = "verify"
    /\ UNCHANGED <<stream, header, calls, idle, scen, sent, spc>>

\* data = ser.read(pkt_len + 1)
ReadBody ==
    /\ pc = "body"
    /\ LET pkt_len == UnpackLE16(SubSeq(header, 2, 3))
       IN  /\ data' = Read(pkt_len + 1)
           /\ pos' = pos + Len(data')
           /\ pauses' = Waited(pkt_len + 1)
           /\ IF Len(data') # pkt_len + 1
              THEN /\ events' = Append(events, BodyReadFailure(pkt_len + 1, Len(data')))
                   /\ pc' = "seeking"
              ELSE /\ events' = events
                   /\ pc' = "verify"
    /\ UNCHANGED <<stream, header, calls, idle, scen, sent, spc>>

\* VerifyChecksum that, on a mismatch, goes back to the byte after the start
\* marker to search the rejected bytes for the next marker
VerifyChecksum_rescan ==
    /\ pc = "verify"
    /\ LET pkt_type == header[1]
           packet_bytes == <<PACKET_START, pkt_type>> \o SubSeq(header, 2, 3) \o data
       IN  IF ~verify_checksum(packet_bytes)
           THEN /\ events' = Append(events, ChecksumError)
                /\ pc' = "seeking"
                /\ pos' = pos - Len(data) - 3
           ELSE /\ events' = events
                /\ pc' = "decode"
                /\ pos' = pos
    /\ UNCHANGED <<stream, header, data, calls, idle, scen, pauses, sent, spc>>

\* VerifyChecksum with the `continue` after the error message missing
VerifyChecksum_noContinue ==
    /\ pc = "verify"
    /\ LET pkt_type == header[1]
           packet_bytes == <<PACKET_START, pkt_type>> \o SubSeq(header, 2, 3) \o data
       IN  IF ~verify_checksum(packet_bytes)
           THEN events' = Append(events, ChecksumError)
           ELSE events' = events
    /\ pc' = "decode"
    /\ UNCHANGED <<stream, pos, header, data, calls, idle, scen, pauses, sent, spc>>

\* if not verify_checksum(packet_bytes): print error; continue
VerifyChecksum ==
    /\ pc = "verify"
    /\ LET pkt_type == header[1]
           packet_bytes == <<PACKET_START, pkt_type>> \o SubSeq(header, 2, 3) \o data
       IN  IF ~verify_checksum(packet_bytes)
           THEN /\ events' = Append(events, ChecksumError)
                /\ pc' = "seeking"
           ELSE /\ events' = events
                /\ pc' = "decode"
    /\ UNCHANGED <<stream, pos, header, data, calls, idle, scen, pauses, sent, spc>>

\* decoded = decode_packet(pkt_type, payload); print(decoded).  An exception
\* raised by decode_packet is caught by nothing but `finally: ser.close()`:
\* the loop is left and the process ends with the traceback.
DecodeAndPrint ==
    /\ pc = "decode"
    /\ LET pkt_type == header[1]
           payload == SubSeq(data, 1, Len(data) - 1)
       IN  /\ calls' = Append(calls, <<pkt_type, payload>>)
           /\ IF decode_packet(pkt_type, payload).tag = "NameError"
              THEN /\ events' = events
                   /\ pc' = "crashed"
              ELSE /\ events' = Append(events, Decoded(pkt_type, payload))
                   /\ pc' = "seeking"
    /\ UNCHANGED <<stream, pos, header, data, idle, scen, pauses, sent, spc>>

Next ==
    \/ SeekByte
    \/ SeekTimeout
    \/ ReadHeader
    \/ ReadBody
    \/ VerifyChecksum
    \/ DecodeAndPrint

Spec == Init /\ [][Next]_vars

\* ------------------------------------------------------------------------
\* Single calls of the encoder and of the report decoders
\* ------------------------------------------------------------------------
MaxEncLen == 3
EncTypes == {0, PKT_KEYBOARD_REPORT, PKT_STATUS, PACKET_START, 255}
EncLens == (0..MaxEncLen) \cup {255, 256, USHORT_MAX + 1, USHORT_MAX + 2}
Filled(n, b) == [i \in 1..n |-> b]

\* create_packet(t1, p1): every sampled type with the short payloads and
\* with the payloads that are too long, one type with the longest payload
\* that fits
EncodeScenarios ==
    {Scenario("encode", t, Filled(n, b), 0, <<>>, <<>>, <<>>, 0, 0) :
        t \in EncTypes, n \in EncLens, b \in {1, PACKET_START}}
    \cup {Scenario("encode", PKT_STATUS, Filled(USHORT_MAX, b), 0, <<>>, <<>>, <<>>, 0, 0) :
            b \in {1, PACKET_START}}

MaxExtra == 1
ButtonSamples == (0..8) \cup {249, 255}
DeltaSamples == {0, 1, 10, 127, 128, 251, 255}
ExtraBytes == SeqsUpTo({0, 255}, MaxExtra)

\* decode_mouse_report(p1)
MouseScenarios ==
    {Scenario("mouse", 0, <<b[1], b[2], b[3]>> \o e, 0, <<>>, <<>>, <<>>, 0, 0) :
        b \in ButtonSamples \X DeltaSamples \X DeltaSamples, e \in ExtraBytes}

ModifierSamples == {0, 1, 2, 4, 8, 16, 32, 64, 128, 34, 255}
ReservedSamples == {0, 1, 255}
KeySlotSamples ==
    [1..6 -> {0, 4}]
    \cup {<<4, 5, 6, 7, 8, 9>>, <<9, 0, 8, 0, 7, 0>>, <<0, 255, 0, 1, 0, 170>>}

\* decode_keyboard_report(p1)
KeyboardScenarios ==
    {Scenario("keyboard", 0, <<m, r>> \o k, 0, <<>>, <<>>, <<>>, 0, 0) :
        m \in ModifierSamples, r \in ReservedSamples, k \in KeySlotSamples}

FnScenarios == EncodeScenarios \cup MouseScenarios \cup KeyboardScenarios

InitFn ==
    /\ scen \in FnScenarios
    /\ stream = <<>>
    /\ pos = 0
    /\ pc = "call"
    /\ header = <<>>
    /\ data = <<>>
    /\ events = <<>>
    /\ calls = <<>>
    /\ idle = 0
    /\ pauses = {}
    /\ sent = 0
    /\ spc = "none"

\* packet = create_packet(pkt_type, payload)
Encode ==
    /\ pc = "call"
    /\ scen.kind = "encode"
    /\ LET r == create_packet_call(scen.t1, scen.p1)
       IN  /\ pc' = IF r.ok THEN "returned" ELSE "raised"
           /\ stream' = r.bytes
    /\ UNCHANGED <<pos, header, data, events, calls, idle, scen, pauses, sent, spc>>

\* decoded = decode_mouse_report(payload)
DecodeMouse ==
    /\ pc = "call"
    /\ scen.kind = "mouse"
    /\ events' = <<Event("Decoded", PKT_MOUSE_REPORT, scen.p1, 0, 0,
                         decode_mouse_report(scen.p1))>>
    /\ pc' = "returned"
    /\ UNCHANGED <<stream, pos, header, data, calls, idle, scen, pauses, sent, spc>>

\* decoded = decode_keyboard_report(payload)
DecodeKeyboard ==
    /\ pc = "call"
    /\ scen.kind = "keyboard"
    /\ events' = <<Event("Decoded", PKT_KEYBOARD_REPORT, scen.p1, 0, 0,
                         decode_keyboard_report(scen.p1))>>
    /\ pc' = "returned"
    /\ UNCHANGED <<stream, pos, header, data, calls, idle, scen, pauses, sent, spc>>

NextFn ==
    \/ Encode
    \/ DecodeMouse
    \/ DecodeKeyboard

SpecFn == InitFn /\ [][NextFn]_vars

\* ------------------------------------------------------------------------
\* The senders (test_uart_protocol.py) writing to the line the monitor reads
\* ------------------------------------------------------------------------
\* v & 0xFF without the mask
Mask8_unmasked(v) == v

\* v & 0xFF on a Python integer of either sign
Mask8(v) == v % 256

\* bytes([...]): every element must be in range(0, 256)
BytesOf(elems) ==
    IF \E i \in 1..Len(elems) : elems[i] \notin 0..255
    THEN Raised("ValueError")
    ELSE Returned(elems)

\* payload = bytes([buttons, x & 0xFF, y & 0xFF])
send_mouse_report_payload(buttons, x, y) ==
    BytesOf(<<buttons, Mask8(x), Mask8(y)>>)

\* send_mouse_report: the packet built from the payload, as written to ser
send_mouse_report(buttons, x, y) ==
    LET payload == send_mouse_report_payload(buttons, x, y)
    IN  IF payload.ok
        THEN create_packet_call(PKT_MOUSE_REPORT, payload.bytes)
        ELSE payload

\* the UTF-8 bytes of one code point
Utf8Char(c) ==
    IF c < 128 THEN <<c>>
    ELSE IF c < 2048 THEN <<192 + (c \div 64), 128 + (c % 64)>>
    ELSE IF c < 65536
         THEN <<224 + (c \div 4096), 128 + ((c \div 64) % 64), 128 + (c % 64)>>
         ELSE <<240 + (c \div 262144), 128 + ((c \div 4096) % 64),
                128 + ((c \div 64) % 64), 128 + (c % 64)>>

RECURSIVE Utf8Bytes(_)
Utf8Bytes(text) ==
    IF text = <<>> THEN <<>> ELSE Utf8Char(Head(text)) \o Utf8Bytes(Tail(text))

\* payload.encode('utf-8') of a str given by its code points: a surrogate
\* cannot be encoded
EncodeUtf8(text) ==
    IF \E i \in 1..Len(text) : text[i] \in 55296..57343
    THEN Raised("UnicodeEncodeError")
    ELSE Returned(Utf8Bytes(text))

\* create_packet(pkt_type, payload) with a str payload
create_packet_str(pkt_type, text) ==
    LET payload == EncodeUtf8(text)
    IN  IF payload.ok THEN create_packet_call(pkt_type, payload.bytes) ELSE payload

\* send_status: the packet written to ser; message is a str
send_status(message) == create_packet_str(PKT_STATUS, message)

\* send_keyboard_report: payload = bytes([modifier, 0] + keys), then the
\* packet written to ser
send_keyboard_report(modifier, keys) ==
    LET payload == BytesOf(<<modifier, 0>> \o keys)
    IN  IF payload.ok
        THEN create_packet_call(PKT_KEYBOARD_REPORT, payload.bytes)
        ELSE payload

\* one call of a send function
SendCall(fn, modifier, keys, buttons, x, y, message) ==
    [fn |-> fn, modifier |-> modifier, keys |-> keys, buttons |-> buttons,
     x |-> x, y |-> y, message |-> message]

StatusCall(message) == SendCall("send_status", 0, <<>>, 0, 0, 0, message)
KeyboardCall(modifier, keys) ==
    SendCall("send_keyboard_report", modifier, keys, 0, 0, 0, <<>>)
MouseCall(buttons, x, y) == SendCall("send_mouse_report", 0, <<>>, buttons, x, y, <<>>)

\* "UART Protocol Test Started" and "UART Protocol Test Complete"
TestStarted == <<85, 65, 82, 84, 32, 80, 114, 111, 116, 111, 99, 111, 108, 32, 84, 101, 115, 116, 32, 83, 116, 97, 114, 116, 101, 100>>
TestComplete == <<85, 65, 82, 84, 32, 80, 114, 111, 116, 111, 99, 111, 108, 32, 84, 101, 115, 116, 32, 67, 111, 109, 112, 108, 101, 116, 101>>

NoKeys == <<0, 0, 0, 0, 0, 0>>

\* for i in range(30): press key 0x04 + (i % 26), then release
RapidTyping ==
    [j \in 1..60 |->
        IF j % 2 = 1
        THEN KeyboardCall(0, <<4 + (((j - 1) \div 2) % 26), 0, 0, 0, 0, 0>>)
        ELSE KeyboardCall(0, NoKeys)]

\* the calls of main, in order
MainScript ==
    << StatusCall(TestStarted),
       KeyboardCall(0, <<4, 0, 0, 0, 0, 0>>), KeyboardCall(0, NoKeys),
       KeyboardCall(2, <<4, 0, 0, 0, 0, 0>>), KeyboardCall(0, NoKeys),
       MouseCall(0, 10, -5), MouseCall(1, 0, 0), MouseCall(0, 0, 0) >>
    \o RapidTyping
    \o << StatusCall(TestComplete) >>

\* send_mouse_report(ser, buttons, x, y): t1 holds buttons, idx holds x and
\* bit holds y
SendButtonSamples == {0, 1, 7, 255, 256}
SendDeltaSamples == {-1000, -256, -129, -128, -5, -1, 0, 10, 127, 128, 255, 256, 1000}
SendMouseScenarios ==
    {Scenario("sendmouse", b, <<>>, 0, <<>>, <<>>, <<>>, x, y) :
        b \in SendButtonSamples, x \in SendDeltaSamples, y \in SendDeltaSamples}

\* send_keyboard_report(ser, modifier, keys): t1 holds modifier, p1 holds keys
SendModifierSamples == {0, 2, 255, 256, -1}
SendKeySamples ==
    {NoKeys, <<4, 0, 0, 0, 0, 0>>, <<4, 5, 6, 7, 8, 9>>, <<PACKET_START, 0, 0, 0, 0, 0>>,
     <<0, 0, 0, 0, 0, 256>>, <<4>>, <<>>, <<4, 5, 6, 7, 8, 9, 10>>}
SendKeyboardScenarios ==
    {Scenario("sendkeyboard", m, k, 0, <<>>, <<>>, <<>>, 0, 0) :
        m \in SendModifierSamples, k \in SendKeySamples}

\* send_status(ser, message): p1 holds the code points of message
MessageSamples ==
    {<<>>, <<79, 75>>, <<233>>, <<PACKET_START>>, <<8364>>, <<128512>>, <<55296>>,
     TestStarted}
SendStatusScenarios ==
    {Scenario("sendstatus", 0, m, 0, <<>>, <<>>, <<>>, 0, 0) : m \in MessageSamples}

\* main()
MainScenarios == {Scenario("main", 0, <<>>, 0, <<>>, <<>>, <<>>, 0, 0)}

LinkScenarios ==
    SendMouseScenarios \cup SendKeyboardScenarios \cup SendStatusScenarios
    \cup MainScenarios

\* the calls the sending side makes
ScriptOf(sc) ==
    CASE sc.kind = "sendmouse" -> << MouseCall(sc.t1, sc.idx, sc.bit) >>
      [] sc.kind = "sendkeyboard" -> << KeyboardCall(sc.t1, sc.p1) >>
      [] sc.kind = "sendstatus" -> << StatusCall(sc.p1) >>
      [] sc.kind = "main" -> MainScript
      [] OTHER -> << >>

\* both ports are open, nothing is written yet, the monitor is listening
InitLink ==
    /\ scen \in LinkScenarios
    /\ stream = <<>>
    /\ pos = 0
    /\ pc = "seeking"
    /\ header = <<>>
    /\ data = <<>>
    /\ events = <<>>
    /\ calls = <<>>
    /\ idle = 0
    /\ pauses = {}
    /\ sent = 0
    /\ spc = "call"

\* the call the sending side makes next
NextCall == ScriptOf(scen)[sent + 1]

\* ser.write(packet) puts the packet on the line; an exception raised while
\* the packet is built ends the sending side with nothing written
Write(r) ==
    IF r.ok
    THEN /\ stream' = stream \o r.bytes
         /\ sent' = sent + 1
         /\ spc' = IF scen.kind # "main" /\ sent + 1 = Len(ScriptOf(scen))
                   THEN "returned" ELSE "call"
    ELSE /\ spc' = "raised"
         /\ UNCHANGED <<stream, sent>>

\* send_status(ser, message)
SendStatus ==
    /\ spc = "call"
    /\ sent < Len(ScriptOf(scen))
    /\ NextCall.fn = "send_status"
    /\ Write(send_status(NextCall.message))
    /\ UNCHANGED <<pos, pc, header, data, events, calls, idle, scen, pauses>>

\* send_keyboard_report(ser, modifier, keys)
SendKeyboard ==
    /\ spc = "call"
    /\ sent < Len(ScriptOf(scen))
    /\ NextCall.fn = "send_keyboard_report"
    /\ Write(send_keyboard_report(NextCall.modifier, NextCall.keys))
    /\ UNCHANGED <<pos, pc, header, data, events, calls, idle, scen, pauses>>

\* send_mouse_report(ser, buttons, x, y)
SendMouse ==
    /\ spc = "call"
    /\ sent < Len(ScriptOf(scen))
    /\ NextCall.fn = "send_mouse_report"
    /\ Write(send_mouse_report(NextCall.buttons, NextCall.x, NextCall.y))
    /\ UNCHANGED <<pos, pc, header, data, events, calls, idle, scen, pauses>>

\* main: ser.close() after the last call
Close ==
    /\ spc = "call"
    /\ scen.kind = "main"
    /\ sent = Len(ScriptOf(scen))
    /\ spc' = "closed"
    /\ UNCHANGED <<stream, pos, pc, header, data, events, calls, idle, scen,
                   pauses, sent>>

NextLink ==
    \/ SendStatus
    \/ SendKeyboard
    \/ SendMouse
    \/ Close
    \/ Next

SpecLink == InitLink /\ [][NextLink]_vars


\* ------------------------------------------------------------------------
\* Properties
\* ------------------------------------------------------------------------
\* the sending side has written all it will, the monitor has read it all
\* and is back at the marker search
Quiescent == pc = "seeking" /\ pos = Len(stream) /\ spc # "call"

\* the bytes arrive in one piece: no read is cut short before the end of
\* the stream
Unbroken == scen.pauses = {}

\* nothing more will be printed
Finished == Quiescent \/ pc = "crashed"

IsDecoded(e, t, p) == e.kind = "Decoded" /\ e.type = t /\ e.payload = p

HasKind(k) == \E i \in 1..Len(events) : events[i].kind = k

MarkerFree(s) == \A i \in 1..Len(s) : s[i] # PACKET_START

\* C1: round trip - the bytes of create_packet(type, payload), fed to the
\* decoder in Seeking in one piece, yield exactly one Decoded event carrying
\* that type and payload, and no error event.
C1_RoundTrip ==
    (scen.kind = "single" /\ Unbroken /\ Finished)
        => /\ Len(events) = 1
           /\ IsDecoded(events[1], scen.t1, scen.p1)

\* C2: create_packet returns n+5 bytes: 0xAA, the type, n mod 256, n div 256,
\* the payload unchanged and in order, and the XOR of the n+4 preceding
\* bytes; verify_checksum accepts the result.
C2_PacketLayout ==
    scen.kind = "single"
        => LET n == Len(scen.p1)
           IN  /\ Len(stream) = n + 5
               /\ stream[1] = 170
               /\ stream[2] = scen.t1
               /\ stream[3] = n % 256
               /\ stream[4] = n \div 256
               /\ \A i \in 1..n : stream[4 + i] = scen.p1[i]
               /\ stream[n + 5] = XorUpTo(stream, n + 4)
               /\ verify_checksum(stream)

\* a packet longer than 255 bytes (second length byte 1) that the decoder
\* has read whole and whose checksum it has accepted
C2_Witness ==
    /\ scen.kind = "single"
    /\ Len(scen.p1) > 255
    /\ stream[4] = 1
    /\ ~MarkerFree(scen.p1)
    /\ pc = "decode"

\* C3: resynchronization - noise, a packet, noise, a second packet yield
\* exactly two Decoded events, the two packets in order, and no error.
\* Stated here for noise that holds no marker byte, where the start of each
\* packet is the first marker the search can find, and for bytes that
\* arrive in one piece.
C3_Resync ==
    (/\ scen.kind = "pair" /\ MarkerFree(scen.n1) /\ MarkerFree(scen.n2)
     /\ Unbroken /\ Finished)
        => /\ Len(events) = 2
           /\ IsDecoded(events[1], scen.t1, scen.p1)
           /\ IsDecoded(events[2], scen.t2, scen.p2)

\* C4: no input bytes make the decode loop halt or crash.
C4_NeverHalts == pc # "crashed"

\* C5: a well-formed packet of type 0x09 yields an unrecognized-type event
\* with the raw type and payload, and the packet after it is still decoded
\* (both arriving in one piece).
C5_UnknownType ==
    (/\ scen.kind = "pair" /\ scen.t1 = 9 /\ scen.n1 = <<>> /\ scen.n2 = <<>>
     /\ Unbroken /\ Finished)
        => /\ Len(events) = 2
           /\ IsDecoded(events[1], 9, scen.p1)
           /\ events[1].result.tag = "Unknown"
           /\ IsDecoded(events[2], scen.t2, scen.p2)

FlippedAlone == scen.kind = "flip" /\ scen.t2 = 0 /\ Unbroken

\* C6 as claimed: every single bit flip anywhere in an encoded packet, fed
\* to the decoder in one piece, ends in a ChecksumError event and no Decoded
\* event.
C6_AnyBitFlip ==
    (FlippedAlone /\ Finished)
        => HasKind("ChecksumError") /\ ~HasKind("Decoded")

\* C6, amended: a single bit flip in the type byte, in a payload byte or in
\* the checksum byte of a packet fed in one piece ends in a ChecksumError
\* event and no Decoded event.
C6_FlipDetected ==
    (FlippedAlone /\ scen.idx \in ({2} \cup (5..(Len(scen.p1) + 5))))
        => /\ ~HasKind("Decoded")
           /\ pc # "crashed"
           /\ Finished => HasKind("ChecksumError")

\* a payload bit was flipped, the frame was read whole and rejected
C6_Witness ==
    /\ FlippedAlone
    /\ scen.idx \in 5..(Len(scen.p1) + 4)
    /\ Quiescent
    /\ events = <<ChecksumError>>
    /\ calls = <<>>

\* C7: a Decoded event is emitted only for a frame whose checksum byte is
\* the XOR of 0xAA, the type, both length bytes and the payload as read; on
\* a mismatch the frame's only event is ChecksumError, decode_packet is not
\* called and the loop returns to Seeking.
C7_OnlyValidFramesDecoded ==
    [][ LET frame == <<PACKET_START>> \o header \o data
            good == /\ Len(header) = 3
                    /\ Len(data) >= 1
                    /\ frame[Len(frame)] = XorUpTo(frame, Len(frame) - 1)
        IN  /\ (pc = "verify" /\ ~good)
                => /\ events' = Append(events, ChecksumError)
                   /\ pc' = "seeking"
                   /\ calls' = calls
            /\ (pc = "verify" /\ good) => (events' = events /\ pc' = "decode")
            /\ calls' # calls
                => /\ good
                   /\ calls' = Append(calls, <<header[1], SubSeq(data, 1, Len(data) - 1)>>)
            /\ (Len(events') > Len(events) /\ events'[Len(events')].kind = "Decoded")
                => /\ good
                   /\ IsDecoded(events'[Len(events')], header[1],
                                SubSeq(data, 1, Len(data) - 1))
      ]_vars

\* a rejected frame and, after it, a decoded one
C7_Witness ==
    /\ Len(events) = 2
    /\ events[1] = ChecksumError
    /\ events[2].kind = "Decoded"
    /\ Len(calls) = 1
    /\ pc = "seeking"

\* C8: truncation - the first bytes of a packet (at least the marker, not
\* the whole packet) arriving in one piece and followed by silence yield
\* exactly one HeaderReadFailure (cut inside the header) or exactly one
\* BodyReadFailure (cut inside the body), no Decoded event, and nothing
\* afterwards.
C8_Truncation ==
    (scen.kind = "trunc" /\ Unbroken)
        => /\ ~HasKind("Decoded")
           /\ Len(events) <= 1
           /\ pc # "crashed"
           /\ Quiescent
                => /\ Len(events) = 1
                   /\ events[1].kind =
                        IF scen.idx <= 3 THEN "HeaderReadFailure" ELSE "BodyReadFailure"

\* a packet cut inside its body: the failure is reported, the source has
\* timed out since and nothing else was printed
C8_Witness ==
    /\ scen.kind = "trunc"
    /\ Unbroken
    /\ scen.idx > 4
    /\ Quiescent
    /\ idle > 0
    /\ Len(events) = 1
    /\ events[1].kind = "BodyReadFailure"

\* the packet holds the marker value after its start byte
HoldsMarker(t, p) == t = PACKET_START \/ ~MarkerFree(p)

\* C9: back-to-back well-formed packets that hold bytes equal to 0xAA (as
\* type or in the payload) yield exactly one Decoded event each, in order:
\* no such byte is taken for a start marker.
C9_BackToBack ==
    (/\ scen.kind = "pair" /\ scen.n1 = <<>> /\ scen.n2 = <<>>
     /\ HoldsMarker(scen.t1, scen.p1) /\ HoldsMarker(scen.t2, scen.p2)
     /\ Unbroken /\ Finished)
        => /\ Len(events) = 2
           /\ IsDecoded(events[1], scen.t1, scen.p1)
           /\ IsDecoded(events[2], scen.t2, scen.p2)
           /\ calls = << <<scen.t1, scen.p1>>, <<scen.t2, scen.p2>> >>

\* C10: in Seeking, a byte other than 0xAA or an empty read prints nothing
\* and leaves the loop in Seeking; Seeking is left only by reading 0xAA.
C10_SeekingSilent ==
    [][ pc = "seeking"
            => /\ events' = events
               /\ calls' = calls
               /\ pos' \in {pos, pos + 1}
               /\ pos' = pos => pc' = "seeking"
               /\ (pos' = pos + 1 /\ stream[pos + 1] # 170) => pc' = "seeking"
               /\ pc' # "seeking"
                    => /\ pc' = "header"
                       /\ pos' = pos + 1
                       /\ stream[pos + 1] = 170
      ]_vars

\* noise has been dropped and the source has timed out: still Seeking,
\* nothing printed
C10_Witness ==
    /\ pc = "seeking"
    /\ pos > 0
    /\ idle > 0
    /\ \A i \in 1..pos : stream[i] # 170
    /\ events = <<>>

\* C11: the encoder fails, returning no bytes, exactly when the payload is
\* longer than 65535 bytes; for every type byte and every payload of
\* 0..65535 bytes it returns a packet.
C11_EncoderFailure ==
    (scen.kind = "encode" /\ pc # "call")
        => /\ pc \in {"returned", "raised"}
           /\ (pc = "raised") <=> (Len(scen.p1) > 65535)
           /\ pc = "raised" => stream = <<>>
           /\ pc = "returned"
                => /\ Len(stream) = Len(scen.p1) + 5
                   /\ stream[1] = 170
                   /\ stream[2] = scen.t1

\* a payload of 65536 bytes was refused
C11_Witness ==
    /\ scen.kind = "encode"
    /\ Len(scen.p1) = 65536
    /\ pc = "raised"
    /\ stream = <<>>

\* C12: a well-formed packet of type 0x04 yields a Status event and one of
\* type 0x05 an Ack event; neither fails the decode.
C12_StatusAckDispatch ==
    (/\ scen.kind = "single" /\ scen.t1 \in {PKT_STATUS, PKT_ACK}
     /\ Unbroken /\ Finished)
        => /\ pc # "crashed"
           /\ Len(events) = 1
           /\ IsDecoded(events[1], scen.t1, scen.p1)
           /\ events[1].result.tag = (IF scen.t1 = PKT_STATUS THEN "STATUS" ELSE "ACK")

\* wrong-shape payload for a known type
Malformed(t, p) ==
    \/ t = PKT_KEYBOARD_REPORT /\ Len(p) # 8
    \/ t = PKT_MOUSE_REPORT /\ Len(p) < 3

\* C13: a well-formed packet of type 0x01 whose payload is not 8 bytes long,
\* or of type 0x02 whose payload is shorter than 3 bytes, yields a result
\* that reports the observed length; the loop is then in Seeking right after
\* the packet's checksum byte, as it is after a well-shaped packet.  The
\* packet is the first of the stream and arrives in one piece.
C13_MalformedPayload ==
    [][ (/\ scen.kind \in {"single", "pair"}
         /\ Unbroken
         /\ MarkerFree(scen.n1)
         /\ scen.t1 \in {PKT_KEYBOARD_REPORT, PKT_MOUSE_REPORT}
         /\ events = <<>>
         /\ events' # <<>>)
            => /\ pc' = "seeking"
               /\ pos' = Len(scen.n1) + Len(scen.p1) + 5
               /\ Len(events') = 1
               /\ IsDecoded(events'[1], scen.t1, scen.p1)
               /\ IF Malformed(scen.t1, scen.p1)
                  THEN events'[1].result =
                         Result(IF scen.t1 = PKT_KEYBOARD_REPORT
                                THEN "InvalidKeyboardLength" ELSE "InvalidMouseLength",
                                <<>>, <<>>, 0, 0, Len(scen.p1))
                  ELSE events'[1].result.tag \in {"KEYBOARD", "MOUSE"}
      ]_vars

\* a mouse packet with a 1-byte payload was reported with its length, and the
\* packet after it was decoded
C13_Witness ==
    /\ scen.kind = "pair"
    /\ scen.t1 = PKT_MOUSE_REPORT
    /\ Len(scen.p1) = 1
    /\ Len(events) = 2
    /\ events[1].result.tag = "InvalidMouseLength"
    /\ events[1].result.len = 1
    /\ IsDecoded(events[2], scen.t2, scen.p2)
    /\ pc = "seeking"

\* bit k of byte v is set
BitSet(v, k) == (v \div Pow2(k)) % 2 = 1

\* C14: for a mouse payload of 3 or more bytes decode_mouse_report reports
\* as buttons exactly those of LEFT (0x01), RIGHT (0x02), MIDDLE (0x04)
\* whose bit is set in byte 0, as dx and dy the two's-complement values of
\* bytes 1 and 2, and nothing that depends on a byte at index 3 or beyond.
C14_MouseDecode ==
    (scen.kind = "mouse" /\ pc = "returned")
        => LET p == scen.p1
               r == events[1].result
           IN  /\ r.tag = "MOUSE"
               /\ r.names = (IF BitSet(p[1], 0) THEN <<"LEFT">> ELSE <<>>)
                            \o (IF BitSet(p[1], 1) THEN <<"RIGHT">> ELSE <<>>)
                            \o (IF BitSet(p[1], 2) THEN <<"MIDDLE">> ELSE <<>>)
               /\ r.x = (IF p[2] < 128 THEN p[2] ELSE p[2] - 256)
               /\ r.y = (IF p[3] < 128 THEN p[3] ELSE p[3] - 256)
               /\ r = decode_mouse_report(SubSeq(p, 1, 3))
               /\ SubSeq(p, 1, 3) = <<1, 10, 251>>
                    => (r.names = <<"LEFT">> /\ r.x = 10 /\ r.y = -5)

\* the spec's example payload with a byte after it: LEFT, +10, -5
C14_Witness ==
    /\ scen.kind = "mouse"
    /\ pc = "returned"
    /\ Len(scen.p1) > 3
    /\ SubSeq(scen.p1, 1, 3) = <<1, 10, 251>>
    /\ events[1].result.names = <<"LEFT">>
    /\ events[1].result.x = 10
    /\ events[1].result.y = -5

IsKey(k) == k # 0

\* C15: for an 8-byte keyboard payload decode_keyboard_report reports as
\* modifiers exactly the names whose bit is set in byte 0 (LCTRL 0x01 ...
\* RGUI 0x80), as keys exactly the non-zero bytes 2..7 in slot order, and
\* nothing that depends on byte 1.
C15_KeyboardDecode ==
    (scen.kind = "keyboard" /\ pc = "returned")
        => LET p == scen.p1
               r == events[1].result
           IN  /\ r.tag = "KEYBOARD"
               /\ r.names = (IF BitSet(p[1], 0) THEN <<"LCTRL">> ELSE <<>>)
                            \o (IF BitSet(p[1], 1) THEN <<"LSHIFT">> ELSE <<>>)
                            \o (IF BitSet(p[1], 2) THEN <<"LALT">> ELSE <<>>)
                            \o (IF BitSet(p[1], 3) THEN <<"LGUI">> ELSE <<>>)
                            \o (IF BitSet(p[1], 4) THEN <<"RCTRL">> ELSE <<>>)
                            \o (IF BitSet(p[1], 5) THEN <<"RSHIFT">> ELSE <<>>)
                            \o (IF BitSet(p[1], 6) THEN <<"RALT">> ELSE <<>>)
                            \o (IF BitSet(p[1], 7) THEN <<"RGUI">> ELSE <<>>)
               /\ r.keys = SelectSeq(<<p[3], p[4], p[5], p[6], p[7], p[8]>>, IsKey)
               /\ r = decode_keyboard_report([p EXCEPT ![2] = 0])
               /\ p = <<2, 0, 4, 0, 0, 0, 0, 0>>
                    => (r.names = <<"LSHIFT">> /\ r.keys = <<4>>)

\* keys in slots 0, 2 and 4 with a non-zero reserved byte: reported in slot
\* order, the reserved byte not among them
C15_Witness ==
    /\ scen.kind = "keyboard"
    /\ pc = "returned"
    /\ scen.p1 = <<34, 255, 9, 0, 8, 0, 7, 0>>
    /\ events[1].result.names = <<"LSHIFT", "RSHIFT">>
    /\ events[1].result.keys = <<9, 8, 7>>

\* events1 is events0 with one event of kind k added at the end
Emits(events0, events1, k) ==
    /\ Len(events1) = Len(events0) + 1
    /\ SubSeq(events1, 1, Len(events0)) = events0
    /\ events1[Len(events1)].kind = k

\* the line stays live for the next n bytes: they are written and no pause
\* falls before the last of them
Live(n) ==
    /\ Len(stream) - pos >= n
    /\ \A k \in pauses : ~(pos <= k /\ k < pos + n)

\* C16: after a complete 3-byte header the decoder requests length+1 bytes,
\* length = header[1] + 256*header[2]; a shorter read yields BodyReadFailure
\* with expected = length+1 and actual = the bytes returned, no decode of
\* the frame, and Seeking.  A header read of fewer than 3 bytes yields
\* HeaderReadFailure and Seeking, and no body read.
C16_ReadLengths ==
    [][ LET got == pos' - pos
        IN  /\ pc = "header"
                => /\ got \in 0..3
                   /\ header' = SubSeq(stream, pos + 1, pos')
                   /\ Live(3) => got = 3
                   /\ IF got < 3
                      THEN /\ Emits(events, events', "HeaderReadFailure")
                           /\ pc' = "seeking"
                           /\ data' = data
                           /\ calls' = calls
                      ELSE /\ events' = events
                           /\ pc' = "body"
            /\ pc = "body"
                => LET length == header[2] + 256 * header[3]
                   IN  /\ got \in 0..(length + 1)
                       /\ data' = SubSeq(stream, pos + 1, pos')
                       /\ Live(length + 1) => got = length + 1
                       /\ IF got < length + 1
                          THEN /\ Emits(events, events', "BodyReadFailure")
                               /\ events'[Len(events')].expected = length + 1
                               /\ events'[Len(events')].actual = got
                               /\ pc' = "seeking"
                               /\ calls' = calls
                          ELSE /\ events' = events
                               /\ pc' = "verify"
      ]_vars

\* a mouse packet whose body read timed out after one of its four bytes:
\* expected 4, got 1, the rest of the packet still to be read
C16_Witness ==
    /\ scen.kind = "single"
    /\ scen.t1 = PKT_MOUSE_REPORT
    /\ scen.p1 = MousePayload
    /\ scen.pauses = {5}
    /\ pc = "seeking"
    /\ pos = 5
    /\ events = <<BodyReadFailure(4, 1)>>
    /\ calls = <<>>

\* a frame is being read: a start marker was accepted and the loop is not
\* back in Seeking
InFrame(p) == p \in {"header", "body", "verify", "decode"}

FrameOutcomes == {"HeaderReadFailure", "BodyReadFailure", "ChecksumError", "Decoded"}

\* C17: every start marker accepted in Seeking leads to exactly one event
\* before the loop is in Seeking again, one of HeaderReadFailure,
\* BodyReadFailure, ChecksumError and Decoded; no event is printed in
\* Seeking.  As steps: in Seeking nothing is printed; a frame being read
\* either goes on without printing or ends in Seeking with one event.
C17_OneEventPerMarker ==
    [][ /\ pc = "seeking" => (events' = events /\ pc' \in {"seeking", "header"})
        /\ InFrame(pc)
            => \/ InFrame(pc') /\ events' = events
               \/ /\ pc' = "seeking"
                  /\ Len(events') = Len(events) + 1
                  /\ SubSeq(events', 1, Len(events)) = events
                  /\ events'[Len(events')].kind \in FrameOutcomes
      ]_vars

\* the damaged packet carries a well-formed packet in its payload, intact,
\* and arrives in one piece
Nested ==
    /\ scen.p1 = NestedPayload
    /\ Unbroken
    /\ \/ scen.kind = "trunc"
       \/ scen.kind = "flip" /\ scen.idx \in {2, Len(scen.p1) + 5}

\* C18: every stream byte is consumed at most once and in order; the bytes
\* read as header or body of a frame that fails are not searched for a
\* start marker: Seeking resumes after them, and a well-formed packet lying
\* wholly inside them yields no Decoded event.
C18_NoRescan ==
    [][ /\ stream' = stream
        /\ pos' >= pos
        /\ pc = "seeking" => pos' \in {pos, pos + 1}
        /\ pc = "header"
            => (header' = SubSeq(stream, pos + 1, pos') /\ pos' <= pos + 3)
        /\ pc = "body"
            => /\ data' = SubSeq(stream, pos + 1, pos')
               /\ pos' <= pos + header[2] + 256 * header[3] + 1
        /\ pc \in {"verify", "decode"} => pos' = pos
        /\ (/\ Len(events') > Len(events)
            /\ events'[Len(events')].kind
                 \in {"HeaderReadFailure", "BodyReadFailure", "ChecksumError"})
            => pc' = "seeking"
        /\ (scen.kind = "flip" /\ Unbroken /\ scen.idx \notin {1, 3, 4}
            /\ events = <<>> /\ events' # <<>>)
            => (events' = <<ChecksumError>> /\ pos' = Len(scen.p1) + 5)
        /\ (scen.kind = "trunc" /\ Unbroken /\ events = <<>> /\ events' # <<>>)
            => pos' = scen.idx
        /\ Nested
            => \A i \in 1..Len(events') :
                  ~IsDecoded(events'[i], PKT_MOUSE_REPORT, <<>>)
      ]_vars

\* a frame that carried a whole mouse packet was rejected for its checksum:
\* the carried packet gave no event, the packet after the frame was decoded
C18_Witness ==
    /\ scen.kind = "flip"
    /\ Nested
    /\ scen.idx = Len(scen.p1) + 5
    /\ scen.t2 = PKT_MOUSE_REPORT
    /\ Quiescent
    /\ Len(events) = 2
    /\ events[1] = ChecksumError
    /\ IsDecoded(events[2], PKT_MOUSE_REPORT, MousePayload)
    /\ calls = << <<PKT_MOUSE_REPORT, MousePayload>> >>

\* v wrapped modulo 256 into -128..127
Wrapped(v) == ((v + 128) % 256) - 128

\* C19: send_mouse_report with buttons in 0..255 raises nothing and writes
\* a packet with the payload <<buttons, x mod 256, y mod 256>>; the monitor's
\* decode_mouse_report gives back x and y themselves when they are in
\* -128..127, and otherwise the input wrapped modulo 256 into -128..127.
C19_MouseSendDecode ==
    (scen.kind = "sendmouse" /\ scen.t1 \in 0..255)
        => LET x == scen.idx
               y == scen.bit
           IN  /\ spc \in {"call", "returned"}
               /\ spc = "returned"
                    => /\ Len(stream) = 8
                       /\ SubSeq(stream, 5, 7) = <<scen.t1, x % 256, y % 256>>
               /\ Len(events) <= 1
               /\ Quiescent => Len(events) = 1
               /\ events # <<>>
                    => /\ IsDecoded(events[1], PKT_MOUSE_REPORT, SubSeq(stream, 5, 7))
                       /\ events[1].result.tag = "MOUSE"
                       /\ x \in -128..127 => events[1].result.x = x
                       /\ y \in -128..127 => events[1].result.y = y
                       /\ events[1].result.x = Wrapped(x)
                       /\ events[1].result.y = Wrapped(y)
                       /\ events[1].result.x \in -128..127
                       /\ events[1].result.y \in -128..127

\* x = -129 came back as +127 and y = -5 came back as -5
C19_Witness ==
    /\ scen.kind = "sendmouse"
    /\ scen.t1 = 7
    /\ scen.idx = -129
    /\ scen.bit = -5
    /\ spc = "returned"
    /\ Quiescent
    /\ stream = <<170, 2, 3, 0, 7, 127, 251, 40>>
    /\ calls = << <<PKT_MOUSE_REPORT, <<7, 127, 251>>>> >>
    /\ events[1].result.x = 127
    /\ events[1].result.y = -5

====
